---- MODULE Spec2Model ----
(***************************************************************************)
(* Process supervision of gtecs.common.system: the PID-file lock of        *)
(* make_pid_file, the operator calls get_pid / clear_pid / kill_process,   *)
(* the signal handler of NeatCloser, and the command runners               *)
(* execute_command / execute_long_command.                                 *)
(*                                                                         *)
(* One machine is modelled: its process table, the PID record file         *)
(* <config>/pid/<name>.pid of one task name, and the inodes that file has  *)
(* named.  `with pid.PidFile(name, path)` is modelled by the system calls  *)
(* it makes: open(path, 'a+'), flock(LOCK_EX | LOCK_NB), the check of the  *)
(* recorded PID, the write of the own PID, and on exit close() followed by *)
(* os.remove(path).                                                        *)
(***************************************************************************)
EXTENDS Integers, FiniteSets, Sequences, TLC

\* Bounds of the model.
NProcs == 2          \* process slots that run the task
MaxPid == 2          \* PIDs 1..MaxPid are handed out, and reused after death
MaxSignals == 2      \* signals delivered to one process
MaxLen == 3          \* tokens in a record text handed to get_pid's parsing
MaxTimeout == 3      \* the timeout of execute_command, in clock ticks
MaxInterrupts == 2   \* KeyboardInterrupts during one execute_long_command
MaxClosers == 2      \* NeatCloser instances constructed in one process

Procs == 1..NProcs
PIDs == 1..MaxPid
Inodes == 1..(NProcs + 1)

NoInode == 0         \* the path names no file / the process has no open file
NoPid == 0           \* an empty record file; the slot of a dead process
NoProc == 0          \* nobody holds the flock of an inode
None == 0            \* the None that get_pid returns

Signals == {"SIGTERM", "SIGINT"}

Loopback == "127.0.0.1"
Hosts == {"127.0.0.1", "10.0.0.9"}      \* host arguments of the operator
LocalIps == {"127.0.0.1", "10.0.0.9"}   \* what get_local_ip can return

\* The commands of the operator's calls, and where one was run: the host
\* argument, the address get_local_ip returned, and whether the command
\* string was wrapped in ssh.
Commands == {"get_pid", "kill", "clear_pid"}
Classes == [host : Hosts, ip : LocalIps, ssh : BOOLEAN]
NotRun == [host |-> "none", ip |-> "none", ssh |-> FALSE]

(***************************************************************************)
(* Texts: what a record file holds and what a command prints, as a         *)
(* sequence of tokens.  A token is a character, or one of the two messages *)
(* the code looks for.                                                     *)
(***************************************************************************)
NoRoute == "No route to host"
NoSuchFile == "No such file or directory"
DigitChars == <<"0", "1", "2", "3", "4", "5", "6", "7", "8", "9">>
\* The tokens of the record texts handed to get_pid's parsing.
Alphabet == {"1", "2", "-", " ", "x", NoSuchFile, NoRoute}
Tokens == Alphabet \cup {DigitChars[i] : i \in 1..10}

RECURSIVE SeqsUpTo(_, _)
SeqsUpTo(S, n) ==
  IF n = 0 THEN {<< >>}
  ELSE LET shorter == SeqsUpTo(S, n - 1)
       IN shorter \cup {Append(t, c) : t \in shorter, c \in S}
Texts == SeqsUpTo(Alphabet, MaxLen)

\* `message in output`
Contains(output, message) == \E i \in 1..Len(output) : output[i] = message

Digits == {DigitChars[i] : i \in 1..10}
IsDigit(c) == c \in Digits
DigitVals == [c \in Digits |-> (CHOOSE i \in 1..10 : DigitChars[i] = c) - 1]
DigitVal(c) == DigitVals[c]

\* str.strip(): the whitespace at both ends removed.
RECURSIVE Strip(_)
Strip(s) ==
  IF s = << >> THEN s
  ELSE IF Head(s) = " " THEN Strip(Tail(s))
  ELSE IF s[Len(s)] = " " THEN Strip(SubSeq(s, 1, Len(s) - 1))
  ELSE s

RECURSIVE Value(_)
Value(ds) ==
  IF ds = << >> THEN 0
  ELSE 10 * Value(SubSeq(ds, 1, Len(ds) - 1)) + DigitVal(ds[Len(ds)])

\* Python's int(text): white space around it is skipped, a sign is taken,
\* and what is left must be digits.
int(text) ==
  LET t == Strip(text)
      neg == t # << >> /\ Head(t) = "-"
      ds == IF neg THEN Tail(t) ELSE t
  IN IF ds # << >> /\ \A i \in 1..Len(ds) : IsDigit(ds[i])
       THEN [ok |-> TRUE, val |-> IF neg THEN 0 - Value(ds) ELSE Value(ds)]
       ELSE [ok |-> FALSE, val |-> 0]

\* The decimal text PidFile writes for a PID ("%d\n"; getoutput drops the
\* newline at the end).
RECURSIVE Format(_)
Format(n) ==
  IF n < 10 THEN <<DigitChars[n + 1]>>
  ELSE Append(Format(n \div 10), DigitChars[(n % 10) + 1])

VARIABLES
  \* ---- process table
  pc,        \* where each process is: "dead", "start", "opened", "locked",
             \* "checked", "body", "closing", "removing", "left"
  pidOf,     \* the PID of each live process
  fh,        \* the inode of the PID file each process has open
  exc,       \* the exception that left make_pid_file in the process
  exitcode,  \* the argument of a SystemExit raised in the process
  \* ---- NeatCloser of each process
  handler,   \* number of NeatCloser instances constructed (0: default handlers)
  hpos,      \* position of the innermost running interrupt(): "none",
             \* "announced", "tidying", "tidied"
  nsig,      \* interrupt() calls made (each announces the task name)
  tstart,    \* tidy_up() calls started
  tdone,     \* tidy_up() calls that returned
  \* ---- file system
  path,      \* the inode <name>.pid names, or NoInode
  content,   \* the PID written in each inode, or NoPid when it is empty
  lock,      \* the process holding the flock of each inode
  \* ---- the operator's call (get_pid, clear_pid or kill_process)
  opc,       \* "idle", "kill_got" (after get_pid), "kill_sent" (after kill -9)
  ocall,     \* the call made last
  ohost,     \* the host argument of a kill_process under way
  opid,      \* what get_pid returned (None or a PID); kill_process forgets
             \* it once clear_pid was called
  ores,      \* how the call ended: "none", "returned", "Killed" (printed by
             \* kill_process), or the exception raised
  oerrAt,    \* the step that raised: "none", "get_pid", "kill", "clear_pid"
  okill,     \* the termination command of kill_process: "none" (not run),
             \* "None" (run on None), "nosuch" (no such process), "killed"
  oclear,    \* clear_pid: "none" (not called), "0", "1", "raised"
  oout,      \* what the transport command run last (cat, kill or rm) printed
  \* ---- execute_long_command
  lpc,       \* "none", "spawned" (after Popen), "wait1", "except" (interrupt
             \* caught and reported), "wait2" (after terminate), "returned",
             \* "raised" (a KeyboardInterrupt left the function)
  lchild,    \* its child: "none", "running", "exited"
  lterm,     \* p.terminate() has sent SIGTERM to the child
  lints,     \* KeyboardInterrupts delivered during the call
  \* ---- execute_command
  xpc,       \* "none", "waiting" (in p.communicate), "returned"
  xchild,    \* its child: "none", "running", "exited"
  xtimeout,  \* the timeout argument, in clock ticks
  xclock,    \* clock ticks since p.communicate was entered
  xres,      \* the value returned: "none", "0", "1"
  \* ---- where the operator's commands ran
  oclass,    \* for "get_pid", "kill" and "clear_pid": the host argument of
             \* the command built last, what get_local_ip returned for it,
             \* and whether the command was wrapped in ssh
  \* ---- one process that constructs several NeatCloser instances
  cmade,     \* NeatCloser instances whose __init__ has returned
  ccon,      \* inside __init__: "none", or "term" (line 182 done, 183 not)
  chandler,  \* the instance whose interrupt handles SIGTERM and SIGINT
             \* (0: the default handler)
  cframes,   \* the running interrupt() calls, innermost last: the instance,
             \* the sig argument and the position ("announced", "tidying",
             \* "tidied")
  ctidy,     \* the instances whose tidy_up was called
  csigs,     \* signals delivered
  cend       \* how the process ended: "none", "exit1" (SystemExit(1)),
             \* "killed" (default SIGTERM), "KeyboardInterrupt" (default SIGINT)

procVars == <<pc, pidOf, fh, exc, exitcode>>
sigVars == <<handler, hpos, nsig, tstart, tdone>>
fsVars == <<path, content, lock>>
opVars == <<opc, ocall, ohost, opid, ores, oerrAt, okill, oclear, oout>>
longVars == <<lpc, lchild, lterm, lints>>
cmdVars == <<xpc, xchild, xtimeout, xclock, xres>>
execVars == <<longVars, cmdVars>>
closerVars == <<cmade, ccon, chandler, cframes, ctidy, csigs, cend>>
vars == <<pc, pidOf, fh, exc, exitcode, handler, hpos, nsig, tstart, tdone,
          path, content, lock, opc, ocall, ohost, opid, ores, oerrAt,
          okill, oclear, oout, lpc, lchild, lterm, lints, xpc, xchild,
          xtimeout, xclock, xres, oclass, cmade, ccon, chandler, cframes,
          ctidy, csigs, cend>>

Alive(p) == pc[p] # "dead"
LivePids == {pidOf[p] : p \in {q \in Procs : Alive(q)}}

\* os.kill(pid, 0) of PidFile's check: a process with that PID exists.
PidExists(n) == n \in LivePids

\* An inode lives while the path or an open file refers to it.
Referenced(i, pth, fhs) == i = pth \/ \E p \in Procs : fhs[p] = i
FreeInode(pth, fhs) ==
  CHOOSE i \in Inodes : /\ ~Referenced(i, pth, fhs)
                        /\ \A j \in Inodes : j < i => Referenced(j, pth, fhs)
\* The content of the inodes after the references changed: an inode nobody
\* refers to is gone.
Reclaim(cnt, pth, fhs) ==
  [i \in Inodes |-> IF Referenced(i, pth, fhs) THEN cnt[i] ELSE NoPid]

\* close() of a process's open file: the flock goes with it.
Unlock(lck, p) == [i \in Inodes |-> IF lck[i] = p THEN NoProc ELSE lck[i]]

TypeOK ==
  /\ pc \in [Procs -> {"dead", "start", "opened", "locked", "checked", "body",
                       "closing", "removing", "left"}]
  /\ pidOf \in [Procs -> PIDs \cup {NoPid}]
  /\ fh \in [Procs -> Inodes \cup {NoInode}]
  /\ exc \in [Procs -> {"none", "Error", "SystemExit", "MultipleProcessError"}]
  /\ exitcode \in [Procs -> 0..1]
  /\ handler \in [Procs -> 0..1]
  /\ hpos \in [Procs -> {"none", "announced", "tidying", "tidied"}]
  /\ nsig \in [Procs -> 0..MaxSignals]
  /\ tstart \in [Procs -> 0..MaxSignals]
  /\ tdone \in [Procs -> 0..MaxSignals]
  /\ path \in Inodes \cup {NoInode}
  /\ content \in [Inodes -> PIDs \cup {NoPid}]
  /\ lock \in [Inodes -> Procs \cup {NoProc}]
  /\ opc \in {"idle", "kill_got", "kill_sent"}
  /\ ocall \in {"none", "get_pid", "clear_pid", "kill_process"}
  /\ ohost \in Hosts
  /\ opid \in Int
  /\ ores \in {"none", "returned", "Killed", "ConnectionError", "ValueError"}
  /\ oerrAt \in {"none", "get_pid", "kill", "clear_pid"}
  /\ okill \in {"none", "None", "nosuch", "killed"}
  /\ oclear \in {"none", "0", "1", "raised"}
  /\ oout \in Seq(Tokens)
  /\ lpc \in {"none", "spawned", "wait1", "except", "wait2", "returned",
              "raised"}
  /\ lchild \in {"none", "running", "exited"}
  /\ lterm \in BOOLEAN
  /\ lints \in 0..MaxInterrupts
  /\ xpc \in {"none", "waiting", "returned"}
  /\ xchild \in {"none", "running", "exited"}
  /\ xtimeout \in 1..MaxTimeout
  /\ xclock \in 0..MaxTimeout
  /\ xres \in {"none", "0", "1"}
  /\ oclass \in [Commands -> Classes \cup {NotRun}]
  /\ cmade \in 0..MaxClosers
  /\ ccon \in {"none", "term"}
  /\ chandler \in [Signals -> 0..MaxClosers]
  /\ cframes \in Seq([inst : 1..MaxClosers, sig : Signals,
                       pos : {"announced", "tidying", "tidied"}])
  /\ ctidy \subseteq 1..MaxClosers
  /\ csigs \in 0..MaxSignals
  /\ cend \in {"none", "exit1", "killed", "KeyboardInterrupt"}

\* No command runner was called.
NoExec ==
  /\ lpc = "none"
  /\ lchild = "none"
  /\ lterm = FALSE
  /\ lints = 0
  /\ xpc = "none"
  /\ xchild = "none"
  /\ xtimeout = 1
  /\ xclock = 0
  /\ xres = "none"

\* No NeatCloser was constructed in the process of several instances.
NoCloser ==
  /\ cmade = 0
  /\ ccon = "none"
  /\ chandler = [sig \in Signals |-> 0]
  /\ cframes = << >>
  /\ ctidy = {}
  /\ csigs = 0
  /\ cend = "none"

\* The operator has made no call.
NoCall ==
  /\ opc = "idle"
  /\ oclass = [c \in Commands |-> NotRun]
  /\ ocall = "none"
  /\ ohost = Loopback
  /\ opid = None
  /\ ores = "none"
  /\ oerrAt = "none"
  /\ okill = "none"
  /\ oclear = "none"

\* No process runs the task and there is no record file.
NoTask ==
  /\ pc = [p \in Procs |-> "dead"]
  /\ pidOf = [p \in Procs |-> NoPid]
  /\ fh = [p \in Procs |-> NoInode]
  /\ exc = [p \in Procs |-> "none"]
  /\ exitcode = [p \in Procs |-> 0]
  /\ handler = [p \in Procs |-> 0]
  /\ hpos = [p \in Procs |-> "none"]
  /\ nsig = [p \in Procs |-> 0]
  /\ tstart = [p \in Procs |-> 0]
  /\ tdone = [p \in Procs |-> 0]
  /\ path = NoInode
  /\ content = [i \in Inodes |-> NoPid]
  /\ lock = [i \in Inodes |-> NoProc]

Init ==
  /\ NoTask
  /\ NoCall
  /\ oout = << >>
  /\ NoExec
  /\ NoCloser

(***************************************************************************)
(* The task process: make_pid_file                                         *)
(***************************************************************************)

\* A process starts in the lowest free slot and the kernel gives it a PID no
\* live process has.
Spawn(p) ==
  /\ pc[p] = "dead"
  /\ \A q \in Procs : q < p => Alive(q)
  /\ \E n \in PIDs \ LivePids : pidOf' = [pidOf EXCEPT ![p] = n]
  /\ pc' = [pc EXCEPT ![p] = "start"]
  /\ UNCHANGED <<fh, exc, exitcode, sigVars, fsVars, opVars, execVars, oclass, closerVars>>

\* PidFile.create: open(filename, 'a+') opens the record, creating it empty
\* when the path names no file.
Open(p) ==
  /\ pc[p] = "start"
  /\ LET i == IF path = NoInode THEN FreeInode(path, fh) ELSE path
     IN /\ fh' = [fh EXCEPT ![p] = i]
        /\ path' = i
  /\ pc' = [pc EXCEPT ![p] = "opened"]
  /\ UNCHANGED <<pidOf, exc, exitcode, sigVars, content, lock, opVars, execVars, oclass, closerVars>>

\* PidFile.create: flock(LOCK_EX | LOCK_NB) on the open file succeeds.
FlockOk(p) ==
  /\ pc[p] = "opened"
  /\ lock[fh[p]] = NoProc
  /\ lock' = [lock EXCEPT ![fh[p]] = p]
  /\ pc' = [pc EXCEPT ![p] = "locked"]
  /\ UNCHANGED <<pidOf, fh, exc, exitcode, sigVars, path, content, opVars, execVars, oclass, closerVars>>

\* A faulty RaiseMultiple: the failed acquisition removes the record file as
\* it closes it.
RaiseMultipleRemoves(p) ==
  /\ fh' = [fh EXCEPT ![p] = NoInode]
  /\ lock' = Unlock(lock, p)
  /\ path' = NoInode
  /\ content' = Reclaim(content, path', fh')
  /\ exc' = [exc EXCEPT ![p] = "MultipleProcessError"]
  /\ pc' = [pc EXCEPT ![p] = "left"]
  /\ UNCHANGED <<pidOf, exitcode, sigVars, opVars, execVars, oclass, closerVars>>

\* The PidFileError of a failed acquisition: the file is closed without being
\* removed, and make_pid_file raises MultipleProcessError in its place.
RaiseMultiple(p) ==
  /\ fh' = [fh EXCEPT ![p] = NoInode]
  /\ lock' = Unlock(lock, p)
  /\ content' = Reclaim(content, path, fh')
  /\ exc' = [exc EXCEPT ![p] = "MultipleProcessError"]
  /\ pc' = [pc EXCEPT ![p] = "left"]
  /\ UNCHANGED <<pidOf, exitcode, sigVars, path, opVars, execVars, oclass, closerVars>>

\* PidFile.create: the flock is held through another open file:
\* PidFileAlreadyLockedError.
FlockFail(p) ==
  /\ pc[p] = "opened"
  /\ lock[fh[p]] # NoProc
  /\ RaiseMultiple(p)

\* PidFile.check under the lock: the record is empty or names no live process.
CheckOk(p) ==
  /\ pc[p] = "locked"
  /\ ~PidExists(content[fh[p]])
  /\ pc' = [pc EXCEPT ![p] = "checked"]
  /\ UNCHANGED <<pidOf, fh, exc, exitcode, sigVars, fsVars, opVars, execVars, oclass, closerVars>>

\* PidFile.check under the lock: a process with the recorded PID exists:
\* PidFileAlreadyRunningError.
CheckRunning(p) ==
  /\ pc[p] = "locked"
  /\ PidExists(content[fh[p]])
  /\ RaiseMultiple(p)

\* PidFile.create: truncate and write the own PID; the body of the with
\* statement runs next.
Write(p) ==
  /\ pc[p] = "checked"
  /\ content' = [content EXCEPT ![fh[p]] = pidOf[p]]
  /\ pc' = [pc EXCEPT ![p] = "body"]
  /\ UNCHANGED <<pidOf, fh, exc, exitcode, sigVars, path, lock, opVars, execVars, oclass, closerVars>>

\* The body of the with statement completes.
BodyReturn(p) ==
  /\ pc[p] = "body"
  /\ hpos[p] = "none"
  /\ pc' = [pc EXCEPT ![p] = "closing"]
  /\ UNCHANGED <<pidOf, fh, exc, exitcode, sigVars, fsVars, opVars, execVars, oclass, closerVars>>

\* The body of the with statement raises.
BodyRaise(p) ==
  /\ pc[p] = "body"
  /\ hpos[p] = "none"
  /\ exc' = [exc EXCEPT ![p] = "Error"]
  /\ pc' = [pc EXCEPT ![p] = "closing"]
  /\ UNCHANGED <<pidOf, fh, exitcode, sigVars, fsVars, opVars, execVars, oclass, closerVars>>

\* PidFile.__exit__, first half: fh.close() gives up the flock.
Close(p) ==
  /\ pc[p] = "closing"
  /\ fh' = [fh EXCEPT ![p] = NoInode]
  /\ lock' = Unlock(lock, p)
  /\ content' = Reclaim(content, path, fh')
  /\ pc' = [pc EXCEPT ![p] = "removing"]
  /\ UNCHANGED <<pidOf, exc, exitcode, sigVars, path, opVars, execVars, oclass, closerVars>>

\* A faulty Remove: the file is closed but not removed.
RemoveKeepsFile(p) ==
  /\ pc[p] = "removing"
  /\ pc' = [pc EXCEPT ![p] = "left"]
  /\ UNCHANGED <<pidOf, fh, exc, exitcode, sigVars, fsVars, opVars, execVars, oclass, closerVars>>

\* PidFile.__exit__, second half: os.remove(filename) if the file is there.
Remove(p) ==
  /\ pc[p] = "removing"
  /\ path' = NoInode
  /\ content' = Reclaim(content, path', fh)
  /\ pc' = [pc EXCEPT ![p] = "left"]
  /\ UNCHANGED <<pidOf, fh, exc, exitcode, sigVars, lock, opVars, execVars, oclass, closerVars>>

\* The processes of V are gone: the kernel closes their files (and with them
\* their flocks) and frees their PIDs.  The record file stays as it is.
Gone(V) ==
  /\ pc' = [p \in Procs |-> IF p \in V THEN "dead" ELSE pc[p]]
  /\ pidOf' = [p \in Procs |-> IF p \in V THEN NoPid ELSE pidOf[p]]
  /\ fh' = [p \in Procs |-> IF p \in V THEN NoInode ELSE fh[p]]
  /\ exc' = [p \in Procs |-> IF p \in V THEN "none" ELSE exc[p]]
  /\ exitcode' = [p \in Procs |-> IF p \in V THEN 0 ELSE exitcode[p]]
  /\ handler' = [p \in Procs |-> IF p \in V THEN 0 ELSE handler[p]]
  /\ hpos' = [p \in Procs |-> IF p \in V THEN "none" ELSE hpos[p]]
  /\ nsig' = [p \in Procs |-> IF p \in V THEN 0 ELSE nsig[p]]
  /\ tstart' = [p \in Procs |-> IF p \in V THEN 0 ELSE tstart[p]]
  /\ tdone' = [p \in Procs |-> IF p \in V THEN 0 ELSE tdone[p]]
  /\ lock' = [i \in Inodes |-> IF lock[i] \in V THEN NoProc ELSE lock[i]]
  /\ content' = Reclaim(content, path, fh')
  /\ path' = path

\* The process ends after make_pid_file has returned or raised.
Terminate(p) ==
  /\ pc[p] = "left"
  /\ Gone({p})
  /\ UNCHANGED <<opVars, execVars, oclass, closerVars>>

(***************************************************************************)
(* NeatCloser                                                              *)
(***************************************************************************)

\* NeatCloser.__init__ in the task body: SIGTERM and SIGINT go to interrupt.
NeatCloserInit(p) ==
  /\ pc[p] = "body"
  /\ hpos[p] = "none"
  /\ handler[p] = 0
  /\ handler' = [handler EXCEPT ![p] = 1]
  /\ UNCHANGED <<procVars, hpos, nsig, tstart, tdone, fsVars, opVars, execVars, oclass, closerVars>>

\* SIGINT or SIGTERM reaches the process while the task body runs: Python
\* calls interrupt() on top of whatever runs, a running interrupt() included,
\* and it announces the task name.
Interrupt(p) ==
  /\ pc[p] = "body"
  /\ handler[p] > 0
  /\ nsig[p] < MaxSignals
  /\ nsig' = [nsig EXCEPT ![p] = @ + 1]
  /\ hpos' = [hpos EXCEPT ![p] = "announced"]
  /\ UNCHANGED <<procVars, handler, tstart, tdone, fsVars, opVars, execVars, oclass, closerVars>>

\* interrupt() calls self.tidy_up().
TidyStart(p) ==
  /\ hpos[p] = "announced"
  /\ tstart' = [tstart EXCEPT ![p] = @ + 1]
  /\ hpos' = [hpos EXCEPT ![p] = "tidying"]
  /\ UNCHANGED <<procVars, handler, nsig, tdone, fsVars, opVars, execVars, oclass, closerVars>>

\* tidy_up() returns.
TidyEnd(p) ==
  /\ hpos[p] = "tidying"
  /\ tdone' = [tdone EXCEPT ![p] = @ + 1]
  /\ hpos' = [hpos EXCEPT ![p] = "tidied"]
  /\ UNCHANGED <<procVars, handler, nsig, tstart, fsVars, opVars, execVars, oclass, closerVars>>

\* A faulty SysExit: sys.exit(1) comes before tidy_up().
SysExitBeforeTidy(p) ==
  /\ hpos[p] = "announced"
  /\ hpos' = [hpos EXCEPT ![p] = "none"]
  /\ exc' = [exc EXCEPT ![p] = "SystemExit"]
  /\ exitcode' = [exitcode EXCEPT ![p] = 1]
  /\ pc' = [pc EXCEPT ![p] = "closing"]
  /\ UNCHANGED <<pidOf, fh, handler, nsig, tstart, tdone, fsVars, opVars, execVars, oclass, closerVars>>

\* A faulty SysExit: interrupt() returns to the interrupted code instead of
\* raising SystemExit.
SysExitReturns(p) ==
  /\ hpos[p] = "tidied"
  /\ hpos' = [hpos EXCEPT ![p] = "none"]
  /\ UNCHANGED <<procVars, handler, nsig, tstart, tdone, fsVars, opVars,
                 execVars, oclass, closerVars>>

\* interrupt() calls sys.exit(1): SystemExit unwinds every running
\* interrupt() and then the body of the with statement.
SysExit(p) ==
  /\ hpos[p] = "tidied"
  /\ hpos' = [hpos EXCEPT ![p] = "none"]
  /\ exc' = [exc EXCEPT ![p] = "SystemExit"]
  /\ exitcode' = [exitcode EXCEPT ![p] = 1]
  /\ pc' = [pc EXCEPT ![p] = "closing"]
  /\ UNCHANGED <<pidOf, fh, handler, nsig, tstart, tdone, fsVars, opVars, execVars, oclass, closerVars>>

(***************************************************************************)
(* The operator: get_pid, clear_pid, kill_process                          *)
(***************************************************************************)

\* A faulty Remote: only the loopback literal counts as local.
RemoteLoopbackOnly(host, ip) == host # Loopback

\* The command goes through ssh unless host is the loopback literal or the
\* address get_local_ip returned in this call.
Remote(host, ip) == host \notin {Loopback, ip}

\* The command string of a call: the command, wrapped in ssh for a host
\* that is not local.
command_string(host, ip, command) ==
  IF Remote(host, ip) THEN <<"ssh", host, command>> ELSE <<command>>

\* What `cat` prints for a record file that is there.
RecordText(i) == IF content[i] = NoPid THEN << >> ELSE Format(content[i])

\* get_pid, lines 114-130: the output of `cat <path>` run on the host ("x":
\* the rest of a message).  ip is what get_local_ip returns in this call,
\* route whether ssh finds a route.
cat_output(host, ip, route) ==
  IF Remote(host, ip) /\ ~route THEN <<"x", NoRoute>>
  ELSE IF path = NoInode THEN <<"x", NoSuchFile>>
  ELSE RecordText(path)

\* A faulty get_pid_result: no route is taken for no record.
get_pid_resultNoRouteIsNone(output) ==
  IF Contains(output, NoRoute) \/ Contains(output, NoSuchFile)
    THEN [raise |-> "none", value |-> None]
  ELSE LET n == int(output)
       IN IF n.ok THEN [raise |-> "none", value |-> n.val]
          ELSE [raise |-> "ValueError", value |-> None]

\* A faulty get_pid_result: the output is not searched for the message of
\* a missing file.
get_pid_resultNoAbsence(output) ==
  IF Contains(output, NoRoute)
    THEN [raise |-> "ConnectionError", value |-> None]
  ELSE LET n == int(output)
       IN IF n.ok THEN [raise |-> "none", value |-> n.val]
          ELSE [raise |-> "ValueError", value |-> None]

\* get_pid, lines 131-137: what the call makes of the output.
get_pid_result(output) ==
  IF Contains(output, NoRoute)
    THEN [raise |-> "ConnectionError", value |-> None]
  ELSE IF Contains(output, NoSuchFile)
    THEN [raise |-> "none", value |-> None]
  ELSE LET n == int(output)
       IN IF n.ok THEN [raise |-> "none", value |-> n.val]
          ELSE [raise |-> "ValueError", value |-> None]

\* get_pid(pid_name, host).
get_pid(host, ip, route) == get_pid_result(cat_output(host, ip, route))

\* clear_pid, lines 143-154: the output of `rm <path>` run on the host.
\* denied: rm fails on a file that is there.
rm_output(host, ip, route, denied) ==
  IF Remote(host, ip) /\ ~route THEN <<"x", NoRoute>>
  ELSE IF path = NoInode THEN <<"x", NoSuchFile>>
  ELSE IF denied THEN <<"x">>
  ELSE << >>

\* rm has removed the file.
rm_removes(host, ip, route, denied) ==
  ~(Remote(host, ip) /\ ~route) /\ path # NoInode /\ ~denied

\* A faulty clear_pid_result: only an empty output counts as success.
clear_pid_resultEmptyOnly(output) ==
  IF Contains(output, NoRoute) THEN [raise |-> "ConnectionError", ret |-> "raised"]
  ELSE IF output = << >> THEN [raise |-> "none", ret |-> "0"]
  ELSE [raise |-> "none", ret |-> "1"]

\* clear_pid, lines 155-162: what the call makes of the output.
clear_pid_result(output) ==
  IF Contains(output, NoRoute) THEN [raise |-> "ConnectionError", ret |-> "raised"]
  ELSE IF output = << >> \/ Contains(output, NoSuchFile)
    THEN [raise |-> "none", ret |-> "0"]
  ELSE [raise |-> "none", ret |-> "1"]

\* clear_pid(pid_name, host).
clear_pid(host, ip, route, denied) ==
  LET out == rm_output(host, ip, route, denied)
      r == clear_pid_result(out)
  IN [raise |-> r.raise, ret |-> r.ret,
      removed |-> rm_removes(host, ip, route, denied), out |-> out]

\* The processes `kill -9 <pid>` ends: SIGKILL cannot be caught.
Victims(n) == {q \in Procs : Alive(q) /\ n # None /\ pidOf[q] = n}

\* kill_process, lines 73-79: the output of `kill -9 <pid>` run on the host
\* with n in the place of the PID; kill prints a message unless it killed.
kill_output(host, ip, route, n) ==
  IF Remote(host, ip) /\ ~route THEN <<"x", NoRoute>>
  ELSE IF Victims(n) = {} THEN <<"x">>
  ELSE << >>

\* What a call may meet: the address get_local_ip returns during it, whether
\* ssh finds a route (asked only when the command goes through ssh), and
\* whether rm is refused (asked only when rm runs on a file that is there).
Transports(host) ==
  {t \in [ip : LocalIps, route : BOOLEAN, denied : BOOLEAN] :
     /\ ~Remote(host, t.ip) => t.route
     /\ t.denied => (t.route /\ path # NoInode)}

\* What the command of a call can print, and what clear_pid can come to,
\* over everything the call may meet.
CatOutputs(host) == {cat_output(host, t.ip, t.route) : t \in Transports(host)}
KillOutputs(host, n) ==
  {kill_output(host, t.ip, t.route, n) : t \in Transports(host)}
ClearOutcomes(host) ==
  {clear_pid(host, t.ip, t.route, t.denied) : t \in Transports(host)}

\* A faulty GetPidRun: a record that does not parse is removed.
GetPidRunClearsMalformed(host, out) ==
  /\ opc = "idle"
  /\ LET r == get_pid_result(out)
     IN /\ oout' = out
        /\ opid' = r.value
        /\ ores' = IF r.raise = "none" THEN "returned" ELSE r.raise
        /\ oerrAt' = IF r.raise = "none" THEN "none" ELSE "get_pid"
        /\ path' = IF r.raise = "ValueError" THEN NoInode ELSE path
        /\ content' = Reclaim(content, path', fh)
  /\ ocall' = "get_pid"
  /\ okill' = "none"
  /\ oclear' = "none"
  /\ UNCHANGED <<opc, ohost, procVars, sigVars, execVars, closerVars, lock>>

\* get_pid(pid_name, host) when `cat` prints out.
GetPidRun(host, out) ==
  /\ opc = "idle"
  /\ LET r == get_pid_result(out)
     IN /\ oout' = out
        /\ opid' = r.value
        /\ ores' = IF r.raise = "none" THEN "returned" ELSE r.raise
        /\ oerrAt' = IF r.raise = "none" THEN "none" ELSE "get_pid"
  /\ ocall' = "get_pid"
  /\ okill' = "none"
  /\ oclear' = "none"
  /\ UNCHANGED <<opc, ohost, procVars, sigVars, execVars, closerVars, fsVars>>

\* The operator calls get_pid.
GetPid(host) ==
  \E out \in CatOutputs(host) : GetPidRun(host, out) /\ UNCHANGED oclass

\* clear_pid(pid_name, host) when the call comes to r.
ClearPidRun(host, r) ==
  /\ opc = "idle"
  /\ oclear' = r.ret
  /\ oout' = r.out
  /\ ores' = IF r.raise = "none" THEN "returned" ELSE r.raise
  /\ oerrAt' = IF r.raise = "none" THEN "none" ELSE "clear_pid"
  /\ path' = IF r.removed THEN NoInode ELSE path
  /\ content' = Reclaim(content, path', fh)
  /\ ocall' = "clear_pid"
  /\ opid' = None
  /\ okill' = "none"
  /\ UNCHANGED <<opc, ohost, procVars, sigVars, execVars, closerVars, lock>>

\* The operator calls clear_pid.
ClearPid(host) ==
  \E r \in ClearOutcomes(host) : ClearPidRun(host, r) /\ UNCHANGED oclass

\* kill_process, line 71, when the `cat` of get_pid prints out.
KillGetPidRun(host, out) ==
  /\ opc = "idle"
  /\ LET r == get_pid_result(out)
     IN /\ oout' = out
        /\ opid' = r.value
        /\ ores' = r.raise
        /\ oerrAt' = IF r.raise = "none" THEN "none" ELSE "get_pid"
        /\ opc' = IF r.raise = "none" THEN "kill_got" ELSE "idle"
        /\ ohost' = IF r.raise = "none" THEN host ELSE Loopback
  /\ ocall' = "kill_process"
  /\ okill' = "none"
  /\ oclear' = "none"
  /\ UNCHANGED <<procVars, sigVars, execVars, closerVars, fsVars>>

\* kill_process, line 71: pid = get_pid(pid_name, host).
KillGetPid(host) ==
  \E out \in CatOutputs(host) : KillGetPidRun(host, out) /\ UNCHANGED oclass

\* A faulty KillSend: the output of the termination command is looked at
\* only after clear_pid was called.
KillSendChecksLate ==
  /\ opc = "kill_got"
  /\ \E out \in KillOutputs(ohost, opid), r \in ClearOutcomes(ohost) :
       /\ IF Contains(out, NoRoute)
            THEN /\ oclear' = r.ret
                 /\ oout' = r.out
                 /\ ores' = "ConnectionError"
                 /\ oerrAt' = IF r.raise = "none" THEN "kill" ELSE "clear_pid"
                 /\ path' = IF r.removed THEN NoInode ELSE path
                 /\ content' = Reclaim(content, path', fh)
                 /\ opc' = "idle"
                 /\ ohost' = Loopback
                 /\ UNCHANGED <<okill, procVars, sigVars, lock>>
            ELSE /\ okill' = IF opid = None THEN "None"
                             ELSE IF Victims(opid) = {} THEN "nosuch"
                             ELSE "killed"
                 /\ opc' = "kill_sent"
                 /\ oout' = out
                 /\ Gone(Victims(opid))
                 /\ UNCHANGED <<ores, oerrAt, ohost, oclear>>
  /\ UNCHANGED <<ocall, opid, execVars, oclass, closerVars>>

\* kill_process, lines 73-81: `kill -9 <pid>` on the host, with whatever
\* get_pid returned in the place of the PID.
KillSendRun(out) ==
  /\ opc = "kill_got"
  /\ oout' = out
  /\ IF Contains(out, NoRoute)
       THEN /\ ores' = "ConnectionError"
            /\ oerrAt' = "kill"
            /\ opc' = "idle"
            /\ ohost' = Loopback
            /\ UNCHANGED <<okill, oclear, procVars, sigVars, fsVars>>
       ELSE /\ okill' = IF opid = None THEN "None"
                        ELSE IF Victims(opid) = {} THEN "nosuch"
                        ELSE "killed"
            /\ opc' = "kill_sent"
            /\ Gone(Victims(opid))
            /\ UNCHANGED <<ores, oerrAt, ohost, oclear>>
  /\ UNCHANGED <<ocall, opid, execVars, closerVars>>

\* kill_process, lines 73-81, over everything the command may meet.
KillSend ==
  \E out \in KillOutputs(ohost, opid) : KillSendRun(out) /\ UNCHANGED oclass

\* A faulty KillClear: clear_pid does not wait for the termination command.
KillClearEarly ==
  /\ opc \in {"kill_got", "kill_sent"}
  /\ \E r \in ClearOutcomes(ohost) :
       /\ oclear' = r.ret
       /\ oout' = r.out
       /\ ores' = IF r.raise = "none" THEN "Killed" ELSE r.raise
       /\ oerrAt' = IF r.raise = "none" THEN "none" ELSE "clear_pid"
       /\ path' = IF r.removed THEN NoInode ELSE path
       /\ content' = Reclaim(content, path', fh)
  /\ opc' = "idle"
  /\ ohost' = Loopback
  /\ opid' = None
  /\ UNCHANGED <<ocall, okill, procVars, sigVars, execVars, oclass, closerVars, lock>>

\* kill_process, lines 83-85: clear_pid(pid_name, host), its return value
\* dropped, then print('Killed process ...').
KillClearRun(r) ==
  /\ opc = "kill_sent"
  /\ oclear' = r.ret
  /\ oout' = r.out
  /\ ores' = IF r.raise = "none" THEN "Killed" ELSE r.raise
  /\ oerrAt' = IF r.raise = "none" THEN "none" ELSE "clear_pid"
  /\ path' = IF r.removed THEN NoInode ELSE path
  /\ content' = Reclaim(content, path', fh)
  /\ opc' = "idle"
  /\ ohost' = Loopback
  /\ opid' = None
  /\ UNCHANGED <<ocall, okill, procVars, sigVars, execVars, closerVars, lock>>

\* kill_process, lines 83-85, over everything clear_pid may meet.
KillClear ==
  \E r \in ClearOutcomes(ohost) : KillClearRun(r) /\ UNCHANGED oclass

ProcNext(p) ==
  \/ Spawn(p) \/ Open(p) \/ FlockOk(p) \/ FlockFail(p) \/ CheckOk(p)
  \/ CheckRunning(p) \/ Write(p) \/ BodyReturn(p) \/ BodyRaise(p)
  \/ Close(p) \/ Remove(p) \/ Terminate(p)
  \/ NeatCloserInit(p) \/ Interrupt(p) \/ TidyStart(p) \/ TidyEnd(p)
  \/ SysExit(p)

OpNext ==
  \/ \E host \in Hosts : GetPid(host) \/ ClearPid(host) \/ KillGetPid(host)
  \/ KillSend
  \/ KillClear

Next == (\E p \in Procs : ProcNext(p)) \/ OpNext

Spec == Init /\ [][Next]_vars

\* The task run without a NeatCloser: no handler is installed, so the body
\* is left by returning or raising only.  For the record file and for the
\* operator this is the whole of Spec: the SystemExit of the handler leaves
\* the body as BodyRaise does.
PlainNext(p) ==
  \/ Spawn(p) \/ Open(p) \/ FlockOk(p) \/ FlockFail(p) \/ CheckOk(p)
  \/ CheckRunning(p) \/ Write(p) \/ BodyReturn(p) \/ BodyRaise(p)
  \/ Close(p) \/ Remove(p) \/ Terminate(p)

NextPlain == (\E p \in Procs : PlainNext(p)) \/ OpNext

SpecPlain == Init /\ [][NextPlain]_vars

\* The task processes alone, scheduled fairly: nobody sends SIGKILL, every
\* tidy_up that starts returns, and a process that can take the next step
\* of its handler or of its way out of the with statement takes it.
NextTask == \E p \in Procs : ProcNext(p)

SpecTaskFair ==
  /\ Init /\ [][NextTask]_vars
  /\ \A p \in Procs :
       /\ WF_vars(TidyStart(p))
       /\ WF_vars(TidyEnd(p))
       /\ WF_vars(SysExit(p))
       /\ WF_vars(Close(p))
       /\ WF_vars(Remove(p))

(***************************************************************************)
(* The operator alone, on a machine where no process runs the task: the    *)
(* record is absent, or was left behind (empty or with a PID) by a process *)
(* that was killed.  Each command is run with the address get_local_ip     *)
(* returns while its command string is built, and where it ran is kept.    *)
(***************************************************************************)
InitHost ==
  /\ pc = [p \in Procs |-> "dead"]
  /\ pidOf = [p \in Procs |-> NoPid]
  /\ fh = [p \in Procs |-> NoInode]
  /\ exc = [p \in Procs |-> "none"]
  /\ exitcode = [p \in Procs |-> 0]
  /\ handler = [p \in Procs |-> 0]
  /\ hpos = [p \in Procs |-> "none"]
  /\ nsig = [p \in Procs |-> 0]
  /\ tstart = [p \in Procs |-> 0]
  /\ tdone = [p \in Procs |-> 0]
  /\ path \in {NoInode, 1}
  /\ content \in {c \in [Inodes -> PIDs \cup {NoPid}] :
                    \A i \in Inodes : i # path => c[i] = NoPid}
  /\ lock = [i \in Inodes |-> NoProc]
  /\ NoCall
  /\ oout = << >>
  /\ NoExec
  /\ NoCloser

\* The command of call c was built for host while get_local_ip returned ip.
Classify(c, host, ip) ==
  oclass' = [oclass EXCEPT ![c] =
               [host |-> host, ip |-> ip,
                ssh |-> Head(command_string(host, ip, c)) = "ssh"]]

HostGetPid(host) ==
  \E t \in Transports(host) :
    /\ GetPidRun(host, cat_output(host, t.ip, t.route))
    /\ Classify("get_pid", host, t.ip)

HostClearPid(host) ==
  \E t \in Transports(host) :
    /\ ClearPidRun(host, clear_pid(host, t.ip, t.route, t.denied))
    /\ Classify("clear_pid", host, t.ip)

HostKillGetPid(host) ==
  \E t \in Transports(host) :
    /\ KillGetPidRun(host, cat_output(host, t.ip, t.route))
    /\ Classify("get_pid", host, t.ip)

HostKillSend ==
  \E t \in Transports(ohost) :
    /\ KillSendRun(kill_output(ohost, t.ip, t.route, opid))
    /\ Classify("kill", ohost, t.ip)

HostKillClear ==
  \E t \in Transports(ohost) :
    /\ KillClearRun(clear_pid(ohost, t.ip, t.route, t.denied))
    /\ Classify("clear_pid", ohost, t.ip)

NextHost ==
  \/ \E host \in Hosts :
       HostGetPid(host) \/ HostClearPid(host) \/ HostKillGetPid(host)
  \/ HostKillSend
  \/ HostKillClear

SpecHost == InitHost /\ [][NextHost]_vars

(***************************************************************************)
(* The race of acquisitions: every slot holds a live process about to      *)
(* enter make_pid_file, and the record is absent or was left behind (empty *)
(* or with a PID) by a process that was killed.                            *)
(***************************************************************************)
InitRace ==
  /\ pc = [p \in Procs |-> "start"]
  /\ pidOf \in {f \in [Procs -> PIDs] : \A p, q \in Procs : p # q => f[p] # f[q]}
  /\ fh = [p \in Procs |-> NoInode]
  /\ exc = [p \in Procs |-> "none"]
  /\ exitcode = [p \in Procs |-> 0]
  /\ handler = [p \in Procs |-> 0]
  /\ hpos = [p \in Procs |-> "none"]
  /\ nsig = [p \in Procs |-> 0]
  /\ tstart = [p \in Procs |-> 0]
  /\ tdone = [p \in Procs |-> 0]
  /\ path \in {NoInode, 1}
  /\ content \in {c \in [Inodes -> PIDs \cup {NoPid}] :
                    \A i \in Inodes : i # path => c[i] = NoPid}
  /\ lock = [i \in Inodes |-> NoProc]
  /\ NoCall
  /\ oout = << >>
  /\ NoExec
  /\ NoCloser

NextRace ==
  \E p \in Procs :
    \/ Open(p) \/ FlockOk(p) \/ FlockFail(p) \/ CheckOk(p) \/ CheckRunning(p)
    \/ Write(p)

SpecRace == InitRace /\ [][NextRace]_vars

(***************************************************************************)
(* get_pid on a record file that is there, whatever its text: `cat` has    *)
(* printed the text, and lines 131-137 make the result of the call of it.  *)
(***************************************************************************)
InitRead ==
  /\ NoTask
  /\ NoCall
  /\ oout \in Texts
  /\ NoExec
  /\ NoCloser

GetPidOfText ==
  /\ ocall = "none"
  /\ LET r == get_pid_result(oout)
     IN /\ opid' = r.value
        /\ ores' = IF r.raise = "none" THEN "returned" ELSE r.raise
        /\ oerrAt' = IF r.raise = "none" THEN "none" ELSE "get_pid"
  /\ ocall' = "get_pid"
  /\ UNCHANGED <<opc, ohost, okill, oclear, oout, procVars, sigVars, fsVars,
                 execVars, oclass, closerVars>>

NextRead == GetPidOfText

SpecRead == InitRead /\ [][NextRead]_vars

(***************************************************************************)
(* The command runners.  A child ends when its command is done, whatever   *)
(* the caller does; SIGTERM does not end it at once.                       *)
(***************************************************************************)

\* execute_long_command, lines 57-59: Popen starts the child and the try
\* block is entered: p.wait().
LongPopen ==
  /\ lpc = "none"
  /\ lpc' = "wait1"
  /\ lchild' = "running"
  /\ UNCHANGED <<lterm, lints, cmdVars, procVars, sigVars, fsVars, opVars, oclass,
                 closerVars>>

\* The child of execute_long_command ends.
LongChildExit ==
  /\ lchild = "running"
  /\ lchild' = "exited"
  /\ UNCHANGED <<lpc, lterm, lints, cmdVars, procVars, sigVars, fsVars, opVars, oclass,
                 closerVars>>

\* Line 59: p.wait() returns, and so does execute_long_command.
LongWaitReturn ==
  /\ lpc = "wait1"
  /\ lchild = "exited"
  /\ lpc' = "returned"
  /\ UNCHANGED <<lchild, lterm, lints, cmdVars, procVars, sigVars, fsVars,
                 opVars, oclass,
                 closerVars>>

\* Lines 60-61: a KeyboardInterrupt during p.wait() is caught and reported.
LongInterruptCaught ==
  /\ lpc = "wait1"
  /\ lints < MaxInterrupts
  /\ lints' = lints + 1
  /\ lpc' = "except"
  /\ UNCHANGED <<lchild, lterm, cmdVars, procVars, sigVars, fsVars, opVars, oclass,
                 closerVars>>

\* Lines 62-65: p.terminate(); the OSError of a child that is gone is
\* passed over.
LongTerminate ==
  /\ lpc = "except"
  /\ lterm' = (lchild = "running")
  /\ lpc' = "wait2"
  /\ UNCHANGED <<lchild, lints, cmdVars, procVars, sigVars, fsVars, opVars, oclass,
                 closerVars>>

\* Line 66: the second p.wait() returns, and so does execute_long_command.
LongWaitReturn2 ==
  /\ lpc = "wait2"
  /\ lchild = "exited"
  /\ lpc' = "returned"
  /\ UNCHANGED <<lchild, lterm, lints, cmdVars, procVars, sigVars, fsVars,
                 opVars, oclass,
                 closerVars>>

\* Lines 60-66: a KeyboardInterrupt inside the except block (the print, the
\* terminate or the second p.wait()) is not caught: it leaves the function.
LongInterruptEscapes ==
  /\ lpc \in {"except", "wait2"}
  /\ lints < MaxInterrupts
  /\ lints' = lints + 1
  /\ lpc' = "raised"
  /\ UNCHANGED <<lchild, lterm, cmdVars, procVars, sigVars, fsVars, opVars, oclass,
                 closerVars>>

\* execute_command, lines 37-41: Popen starts the child and
\* p.communicate(timeout=timeout) is entered.
CmdPopen(timeout) ==
  /\ xpc = "none"
  /\ xpc' = "waiting"
  /\ xchild' = "running"
  /\ xtimeout' = timeout
  /\ xclock' = 0
  /\ UNCHANGED <<xres, longVars, procVars, sigVars, fsVars, opVars, oclass,
                 closerVars>>

\* The child of execute_command ends; nothing kills it when the timeout
\* has expired.
CmdChildExit ==
  /\ xchild = "running"
  /\ xchild' = "exited"
  /\ UNCHANGED <<xpc, xtimeout, xclock, xres, longVars, procVars, sigVars,
                 fsVars, opVars, oclass,
                 closerVars>>

\* Time passes in p.communicate, up to the timeout.
CmdTick ==
  /\ xpc = "waiting"
  /\ xchild = "running"
  /\ xclock < xtimeout
  /\ xclock' = xclock + 1
  /\ UNCHANGED <<xpc, xchild, xtimeout, xres, longVars, procVars, sigVars,
                 fsVars, opVars, oclass,
                 closerVars>>

\* Lines 41-43: p.communicate returns the output of the child that has
\* ended; it is printed, and 0 is returned.
CmdReturn ==
  /\ xpc = "waiting"
  /\ xchild = "exited"
  /\ xres' = "0"
  /\ xpc' = "returned"
  /\ UNCHANGED <<xchild, xtimeout, xclock, longVars, procVars, sigVars,
                 fsVars, opVars, oclass,
                 closerVars>>

\* A faulty CmdTimeout: TimeoutExpired is raised before the time is up.
CmdTimeoutEarly ==
  /\ xpc = "waiting"
  /\ xres' = "1"
  /\ xpc' = "returned"
  /\ UNCHANGED <<xchild, xtimeout, xclock, longVars, procVars, sigVars,
                 fsVars, opVars, oclass,
                 closerVars>>

\* Lines 44-46: p.communicate raises TimeoutExpired when the time is up and
\* the child has not ended; 1 is returned.
CmdTimeout ==
  /\ xpc = "waiting"
  /\ xchild = "running"
  /\ xclock = xtimeout
  /\ xres' = "1"
  /\ xpc' = "returned"
  /\ UNCHANGED <<xchild, xtimeout, xclock, longVars, procVars, sigVars,
                 fsVars, opVars, oclass,
                 closerVars>>

InitExec == Init

NextExec ==
  \/ LongPopen
  \/ LongChildExit
  \/ LongWaitReturn
  \/ LongInterruptCaught
  \/ LongTerminate
  \/ LongWaitReturn2
  \/ LongInterruptEscapes
  \/ \E timeout \in 1..MaxTimeout : CmdPopen(timeout)
  \/ CmdChildExit
  \/ CmdTick
  \/ CmdReturn
  \/ CmdTimeout

SpecExec == InitExec /\ [][NextExec]_vars

\* p.communicate is running code and the clock does not stop: the tick, the
\* return and the timeout happen when they can.
SpecExecFair ==
  /\ SpecExec
  /\ WF_vars(CmdTick)
  /\ WF_vars(CmdReturn)
  /\ WF_vars(CmdTimeout)

(***************************************************************************)
(* One process that constructs NeatCloser instances one after another,     *)
(* with signals arriving at any point.  Instance k is the k-th constructed.*)
(***************************************************************************)

\* The main code of the process runs: it has not ended and no handler is
\* running on top of it.
MainRuns == cend = "none" /\ cframes = << >>

\* NeatCloser.__init__, line 182: signal.signal(SIGTERM, self.interrupt).
InitSigterm ==
  /\ MainRuns
  /\ ccon = "none"
  /\ cmade < MaxClosers
  /\ chandler' = [chandler EXCEPT !["SIGTERM"] = cmade + 1]
  /\ ccon' = "term"
  /\ UNCHANGED <<cmade, cframes, ctidy, csigs, cend, procVars, sigVars,
                 fsVars, opVars, execVars, oclass>>

\* A faulty InitSigint: a handler for SIGINT that is already installed is
\* kept.
InitSigintKeepsFirst ==
  /\ MainRuns
  /\ ccon = "term"
  /\ chandler' = IF chandler["SIGINT"] = 0
                   THEN [chandler EXCEPT !["SIGINT"] = cmade + 1]
                   ELSE chandler
  /\ cmade' = cmade + 1
  /\ ccon' = "none"
  /\ UNCHANGED <<cframes, ctidy, csigs, cend, procVars, sigVars, fsVars,
                 opVars, execVars, oclass>>

\* NeatCloser.__init__, line 183: signal.signal(SIGINT, self.interrupt);
\* the constructor returns.
InitSigint ==
  /\ MainRuns
  /\ ccon = "term"
  /\ chandler' = [chandler EXCEPT !["SIGINT"] = cmade + 1]
  /\ cmade' = cmade + 1
  /\ ccon' = "none"
  /\ UNCHANGED <<cframes, ctidy, csigs, cend, procVars, sigVars, fsVars,
                 opVars, execVars, oclass>>

\* A signal reaches the process.  With a handler installed, Python calls
\* the interrupt() of the instance bound to the signal on top of whatever
\* runs, and it announces the task name (line 187).  Without one, SIGTERM
\* ends the process and SIGINT raises KeyboardInterrupt in whatever runs.
CloserInterrupt(sig) ==
  /\ cend = "none"
  /\ csigs < MaxSignals
  /\ csigs' = csigs + 1
  /\ IF chandler[sig] = 0
       THEN /\ cend' = IF sig = "SIGTERM" THEN "killed"
                        ELSE "KeyboardInterrupt"
            /\ cframes' = << >>
       ELSE /\ cframes' = Append(cframes, [inst |-> chandler[sig],
                                           sig |-> sig,
                                           pos |-> "announced"])
            /\ cend' = cend
  /\ UNCHANGED <<cmade, ccon, chandler, ctidy, procVars, sigVars, fsVars,
                 opVars, execVars, oclass>>

\* interrupt(), line 189: self.tidy_up() of the instance is called.
CloserTidyStart ==
  /\ cframes # << >>
  /\ cframes[Len(cframes)].pos = "announced"
  /\ ctidy' = ctidy \cup {cframes[Len(cframes)].inst}
  /\ cframes' = [cframes EXCEPT ![Len(cframes)].pos = "tidying"]
  /\ UNCHANGED <<cmade, ccon, chandler, csigs, cend, procVars, sigVars,
                 fsVars, opVars, execVars, oclass>>

\* tidy_up() returns.
CloserTidyEnd ==
  /\ cframes # << >>
  /\ cframes[Len(cframes)].pos = "tidying"
  /\ cframes' = [cframes EXCEPT ![Len(cframes)].pos = "tidied"]
  /\ UNCHANGED <<cmade, ccon, chandler, ctidy, csigs, cend, procVars,
                 sigVars, fsVars, opVars, execVars, oclass>>

\* interrupt(), line 190: sys.exit(1) unwinds every running interrupt()
\* and the main code.
CloserSysExit ==
  /\ cframes # << >>
  /\ cframes[Len(cframes)].pos = "tidied"
  /\ cframes' = << >>
  /\ cend' = "exit1"
  /\ UNCHANGED <<cmade, ccon, chandler, ctidy, csigs, procVars, sigVars,
                 fsVars, opVars, execVars, oclass>>

NextCloser ==
  \/ InitSigterm
  \/ InitSigint
  \/ \E sig \in Signals : CloserInterrupt(sig)
  \/ CloserTidyStart
  \/ CloserTidyEnd
  \/ CloserSysExit

SpecCloser == Init /\ [][NextCloser]_vars

(***************************************************************************)
(* Properties                                                              *)
(***************************************************************************)

InBody(p) == pc[p] = "body"

\* C1: when processes enter make_pid_file together, then once every one of
\* them has finished its acquisition exactly one is in the body and every
\* other one has failed with MultipleProcessError.
C1_ExactlyOneWins ==
  (\A p \in Procs : pc[p] \in {"body", "left"}) =>
    /\ Cardinality({p \in Procs : InBody(p)}) = 1
    /\ \A p \in Procs : ~InBody(p) => exc[p] = "MultipleProcessError"

\* C2: at most one live process is inside the body of make_pid_file.
C2_AtMostOneInBody == Cardinality({p \in Procs : InBody(p)}) <= 1

\* C3: if the record file is present and a process is inside make_pid_file,
\* the record holds the PID of that process.
C3_RecordNamesHolder ==
  \A p \in Procs : (InBody(p) /\ path # NoInode) => content[path] = pidOf[p]

\* C4: over the life of a process tidy_up is invoked at most once.
C4_TidyUpAtMostOnce == \A p \in Procs : tstart[p] <= 1

\* C5: a process leaves through the handler's SystemExit only after the task
\* name was announced and a tidy_up has returned, and with a non-zero status;
\* tidy_up never starts before the announcement of its interrupt().
C5_AnnounceTidyExit ==
  \A p \in Procs :
    /\ tstart[p] <= nsig[p]
    /\ tdone[p] <= tstart[p]
    /\ hpos[p] = "tidied" => tdone[p] >= 1
    /\ exc[p] = "SystemExit" => (nsig[p] >= 1 /\ tdone[p] >= 1 /\ exitcode[p] # 0)

\* C5 witness: a signalled process has left make_pid_file with SystemExit.
C5_Witness ==
  \E p \in Procs : pc[p] = "left" /\ exc[p] = "SystemExit" /\ tdone[p] >= 1

\* What a process entering make_pid_file now and running alone would get.
FreshAcquire ==
  IF path = NoInode THEN "body"
  ELSE IF lock[path] # NoProc \/ PidExists(content[path])
    THEN "MultipleProcessError"
  ELSE "body"

\* C6: the step that completes the exit of a process from make_pid_file,
\* whichever way the body was left, leaves the record removed and no lock
\* with the process: get_pid gives None and a new make_pid_file succeeds.
C6_ReleaseOnEveryPath ==
  [][\A p \in Procs :
       (pc[p] = "removing" /\ pc'[p] = "left") =>
         /\ path' = NoInode
         /\ fh'[p] = NoInode
         /\ \A i \in Inodes : lock'[i] # p
         /\ get_pid(Loopback, Loopback, TRUE)' = [raise |-> "none", value |-> None]
         /\ FreshAcquire' = "body"]_vars

\* C6 witness: a process has left make_pid_file on the SystemExit of the
\* signal handler, and the record is gone.
C6_Witness ==
  \E p \in Procs : pc[p] = "left" /\ exc[p] = "SystemExit" /\ path = NoInode

\* C7: a process that has the flock of the record, while no other live
\* process is inside make_pid_file, is not turned away: a record left by a
\* dead holder does not block it.
C7_StaleRecordNeverBlocks ==
  [][\A p \in Procs :
       (/\ pc[p] = "locked"
        /\ \A q \in Procs \ {p} : pc[q] \in {"dead", "start"})
       => pc'[p] # "left"]_vars

\* C8: kill_process with no record (get_pid returned None) issues no
\* termination command, clears nothing and reports nothing as killed.
C8_NoRecordNoKill == okill # "None"

\* C9: when kill_process raises ConnectionError from its get_pid step or its
\* termination step, clear_pid was not called and the step left the record
\* as it was.
C9_NoRouteNoClear ==
  [][(/\ opVars' # opVars
      /\ ocall' = "kill_process"
      /\ ores' = "ConnectionError"
      /\ oerrAt' \in {"get_pid", "kill"})
     => (oclear' = "none" /\ fsVars' = fsVars)]_vars

\* C9 witness: kill_process has raised ConnectionError at its termination
\* step; the record it read is in place and the process it names runs on.
C9_Witness ==
  /\ ocall = "kill_process" /\ ores = "ConnectionError" /\ oerrAt = "kill"
  /\ oclear = "none" /\ path # NoInode /\ content[path] = opid
  /\ \E p \in Procs : InBody(p) /\ pidOf[p] = opid

\* C10: when kill_process has killed the process and its clear_pid then
\* failed, the outcome is neither the plain success nor the ConnectionError
\* of a failed termination.
C10_CleanupFailureDistinct ==
  (ocall = "kill_process" /\ opc = "idle" /\ okill = "killed"
     /\ oclear \in {"1", "raised"})
  => ores \notin {"Killed", "ConnectionError"}

\* C11: get_pid on a record that is there and whose text is not one
\* non-negative integer (digits, with white space around them at most) ends
\* with an error: it returns neither None nor a value.
C11_MalformedRecordFails ==
  LET t == Strip(oout)
      wellFormed == t # << >> /\ \A i \in 1..Len(t) : IsDigit(t[i])
  IN (ocall = "get_pid" /\ ~wellFormed) => ores # "returned"

\* C12: when the output of the transport command of get_pid, clear_pid or
\* kill_process holds 'No route to host', the call has raised
\* ConnectionError: get_pid has not returned None and clear_pid has not
\* returned 0.
C12_NoRouteRaises ==
  Contains(oout, NoRoute) =>
    /\ ores = "ConnectionError"
    /\ oerrAt # "none"
    /\ oclear # "0"

\* C12 witness: clear_pid has met no route while the record was there.
C12_Witness ==
  /\ ocall = "clear_pid" /\ Contains(oout, NoRoute) /\ oclear = "raised"
  /\ path # NoInode

\* C13: while the record is absent, clear_pid on every host that is reached
\* returns 0 and leaves the record absent, however often it is called.
C13_ClearAbsentIsZero ==
  path = NoInode =>
    \A host \in Hosts : \A t \in Transports(host) :
      t.route =>
        LET r == clear_pid(host, t.ip, t.route, t.denied)
        IN r.raise = "none" /\ r.ret = "0" /\ ~r.removed

\* C13 witness: clear_pid was called on an absent record and returned 0.
C13_Witness ==
  /\ ocall = "clear_pid" /\ oclear = "0" /\ Contains(oout, NoSuchFile)
  /\ path = NoInode

\* C14: while a process is inside make_pid_file, get_pid on the local host
\* returns the PID of that process.
C14_GetPidReturnsHolder ==
  \A p \in Procs :
    InBody(p) =>
      get_pid(Loopback, Loopback, TRUE) = [raise |-> "none", value |-> pidOf[p]]

\* C15: while the record is absent, get_pid on the local host and on every
\* remote host that is reached returns None and does not raise.
C15_AbsentGivesNone ==
  path = NoInode =>
    \A host \in Hosts : \A t \in Transports(host) :
      t.route =>
        get_pid(host, t.ip, t.route) = [raise |-> "none", value |-> None]

\* C15 witness: get_pid was called on an absent record and returned None.
C15_Witness ==
  /\ ocall = "get_pid" /\ ores = "returned" /\ opid = None
  /\ Contains(oout, NoSuchFile) /\ path = NoInode

\* C16: in kill_process clear_pid is called only after the termination
\* command was issued.
C16_KillBeforeClear ==
  (ocall = "kill_process" /\ oclear # "none") => okill # "none"

\* C16 witness: kill_process has killed the holder of a record and then
\* removed the record.
C16_Witness ==
  /\ ocall = "kill_process" /\ okill = "killed" /\ oclear = "0"
  /\ oout = << >> /\ path = NoInode

C18_LockAndRecordTogether ==
  \A p \in Procs :
    (fh[p] # NoInode /\ lock[fh[p]] = p) => content[fh[p]] = pidOf[p]

\* C19: execute_long_command does not end, by returning or by raising,
\* while its child is still running, whatever the order of interrupts and
\* of the child's exit.
C19_NeverEndsBeforeChild ==
  lpc \in {"returned", "raised"} => lchild # "running"

C21_MultipleOnlyWhenLockHeld ==
  [][\A p \in Procs :
       (exc[p] # "MultipleProcessError" /\ exc'[p] = "MultipleProcessError")
       => \E q \in Procs \ {p} :
            \/ \E i \in Inodes : lock[i] = q
            \/ pc[q] \in {"closing", "removing"}]_vars

\* C23: when the clear_pid of kill_process removes a record file that holds
\* a PID, it is the PID the termination command was sent to.
C23_ClearsOnlyTheKilledRecord ==
  [][(/\ opc = "kill_sent" /\ opc' = "idle"
      /\ opid # None
      /\ path # NoInode /\ path' = NoInode
      /\ content[path] # NoPid)
     => content[path] = opid]_vars

\* C24: a call of get_pid, made by the operator or by kill_process, leaves
\* the path of the record, the content of every file and every flock as they
\* were, whether it returns a PID, returns None or raises.  (A step that
\* leaves pc alone is a step of the operator.)
C24_GetPidReadsOnly ==
  [][(/\ pc' = pc
      /\ opc = "idle"
      /\ ocall' \in {"get_pid", "kill_process"})
     => (fsVars' = fsVars /\ procVars' = procVars)]_vars

\* get_pid has raised on a record that is there, does not parse, and is
\* locked by a process.
C24_Witness ==
  /\ ocall = "get_pid" /\ ores = "ValueError" /\ oerrAt = "get_pid"
  /\ path # NoInode /\ lock[path] # NoProc /\ content[path] = NoPid

\* C22: every command of get_pid, clear_pid and kill_process was wrapped in
\* ssh exactly when its host argument was neither the loopback literal nor
\* the address get_local_ip returned for that command; and a ConnectionError
\* comes from a command that went through ssh.
C22_LocalIffLoopbackOrOwnIp ==
  /\ \A c \in Commands :
       oclass[c] # NotRun =>
         (oclass[c].ssh <=> (/\ oclass[c].host # "127.0.0.1"
                             /\ oclass[c].host # oclass[c].ip))
  /\ (ores = "ConnectionError" => oclass[oerrAt].ssh)

\* Two commands for the same host, one run locally and one through ssh:
\* the local address changed between them.
C22_Witness ==
  \E c, d \in Commands :
    /\ oclass[c] # NotRun /\ oclass[d] # NotRun
    /\ oclass[c].host = oclass[d].host
    /\ oclass[c].ip # oclass[d].ip
    /\ oclass[c].ssh /\ ~oclass[d].ssh

\* C25: a process whose NeatCloser handler was called, once or several
\* times, leaves make_pid_file with SystemExit and status 1: it does not
\* stay in its handler or in its body for ever.
C25_SignalledProcessExits ==
  \A p \in Procs :
    (nsig[p] >= 1) ~>
      (pc[p] = "left" /\ exc[p] = "SystemExit" /\ exitcode[p] = 1)

\* A process that was signalled again while its handler ran has left with
\* SystemExit and status 1.
C25_Witness ==
  \E p \in Procs :
    /\ nsig[p] >= 2 /\ tstart[p] >= 2
    /\ pc[p] = "left" /\ exc[p] = "SystemExit" /\ exitcode[p] = 1

\* C26: once one or more NeatCloser instances are constructed (and no
\* constructor is under way), both signals are bound to the instance
\* constructed last, every interrupt() that runs is its interrupt(), and no
\* tidy_up of an earlier instance was called.
C26_LatestInstanceHandles ==
  (ccon = "none" /\ cmade >= 1) =>
    /\ \A sig \in Signals : chandler[sig] = cmade
    /\ \A i \in 1..Len(cframes) : cframes[i].inst = cmade
    /\ ctidy \subseteq {cmade}

\* Several instances were constructed, a signal came, and the process has
\* left through the tidy_up and the sys.exit(1) of the last one.
C26_Witness ==
  /\ cmade >= 2 /\ ccon = "none"
  /\ csigs >= 1
  /\ ctidy = {cmade}
  /\ cend = "exit1"

====
